---- MODULE Spec2Model ----
(***************************************************************************)
(* io_adapters: format-keyed read/write adapters (Real and Fake), the      *)
(* process-wide READ_FNS/WRITE_FNS registries and the domain Container.    *)
(*                                                                         *)
(* Python objects with identity (dicts) live in two heaps: `heap` holds    *)
(* the function registries (key -> function), `fheap` the file mappings    *)
(* (path -> data).  A reference is the index of the object in its heap, so *)
(* two holders of the same dict hold the same index.                       *)
(***************************************************************************)
EXTENDS Integers, Sequences, FiniteSets, TLC

\* ------------------------------------------------------------ bounds ----
MaxAdapters == 2   \* adapters constructed in one run
MaxAdds     == 1   \* add_domain calls in one run
MaxRegs     == 1   \* registration calls in one run
MaxCalls    == 2   \* read/write calls in one run

\* ------------------------------------------------------------ values ----
\* A Python value used as key, domain label or path: a str (sequence of
\* characters), an Enum member, a pathlib.Path, or None.
Str(s)      == [kind |-> "str",  v |-> s]
EnumOf(s)   == [kind |-> "enum", v |-> s]
PathOf(s)   == [kind |-> "path", v |-> s]
NoneVal     == [kind |-> "none", v |-> <<>>]

IsSpace(c) == c \in {" ", "\t", "\n"}

LowerChar(c) ==
    CASE c = "J" -> "j" [] c = "S" -> "s" [] c = "O" -> "o" [] c = "N" -> "n"
      [] c = "R" -> "r" [] c = "D" -> "d" [] c = "E" -> "e"
      [] OTHER -> c

\* str.lower()
lower(s) == [i \in 1..Len(s) |-> LowerChar(s[i])]

RECURSIVE lstrip(_)
lstrip(s) == IF s # <<>> /\ IsSpace(Head(s)) THEN lstrip(Tail(s)) ELSE s

RECURSIVE rstrip(_)
rstrip(s) == IF s # <<>> /\ IsSpace(s[Len(s)])
             THEN rstrip(SubSeq(s, 1, Len(s) - 1)) ELSE s

\* str.strip()
strip(s) == rstrip(lstrip(s))

\* standardise_key without the lower-casing
standardise_key_strip_only(key) ==
    IF key.kind = "str" THEN Str(strip(key.v)) ELSE key

\* _registries.standardise_key
standardise_key(key) ==
    IF key.kind = "str" THEN Str(lower(strip(key.v))) ELSE key

\* str(path)
str(path) == IF path.kind = "path" THEN Str(path.v) ELSE path

\* ------------------------------------------------------------ inputs ----
json      == <<"j","s","o","n">>
toml      == <<"t","o","m","l">>
orders    == <<"o","r","d","e","r","s">>

KEY_JSON      == Str(json)
KEY_JSON_RAW  == Str(<<" ","J","S","O","N">>)
KEY_CSV       == Str(<<"c","s","v">>)
KEY_ENUM      == EnumOf(json)

DOM_ORDERS     == Str(orders)
DOM_ORDERS_RAW == Str(<<"O","r","d","e","r","s">>)
DOM_PAYMENT    == Str(<<"p","a","y">>)

\* keys passed to the registration decorators
RegKeys   == {KEY_JSON_RAW, KEY_ENUM}
\* formats passed to read/write
Formats   == {KEY_JSON, KEY_CSV, KEY_ENUM}
\* domain labels passed to the Container
Labels    == {DOM_ORDERS, DOM_ORDERS_RAW, DOM_PAYMENT}
\* functions the application registers
Fns       == {"f1", "f2"}
\* one function per format: a text key spelled with upper case and a leading
\* space, and an enum member
KeyedFns  == {<<KEY_JSON_RAW, "f1">>, <<KEY_ENUM, "f2">>}
\* paths passed to read/write
P_A       == <<"a">>
P_B       == <<"b">>
Paths     == {Str(P_A), PathOf(P_A), Str(P_B)}
\* data passed to write
Data      == {"d1", "d2"}
\* keyword options passed to read/write: none, or some
Options   == {"none", "some"}
\* the domain list passed to Container(domains=...)
InitDomains == <<DOM_ORDERS, DOM_PAYMENT>>

\* ------------------------------------------------------------- dicts ----
EmptyDict == <<>>

DictSet(d, k, x) == [y \in (DOMAIN d) \cup {k} |-> IF y = k THEN x ELSE d[y]]

\* dict.fromkeys(keys, value)
fromkeys(keys, x) == [y \in keys |-> x]

\* ------------------------------------------------------------- state ----
VARIABLES
    heap,        \* registries: sequence of dicts key -> function
    fheap,       \* file mappings: sequence of dicts path -> data
    domain_fns,  \* Container.domain_fns: label -> [READ, WRITE] references
    adapters,    \* the adapters constructed so far
    last,        \* the most recent call and how it ended
    regs,        \* the registration calls made so far, in order
    writes,      \* the writes a Fake adapter has stored so far, in order
    count        \* calls made so far, per kind (bounds the run)

vars == <<heap, fheap, domain_fns, adapters, last, regs, writes, count>>

\* _registries.READ_FNS / WRITE_FNS: the two module-level dicts
READ_FNS  == 1
WRITE_FNS == 2

\* _container._FnType
READ  == "READ"
WRITE == "WRITE"

\* types.MappingProxyType(d): a read-only view of the dict d, not a copy
MappingProxyType(ref) == ref

Call(op, domain, key, fn, adapter, path, data, options, outcome, value, trace) ==
    [op |-> op, domain |-> domain, key |-> key, fn |-> fn, adapter |-> adapter,
     path |-> path, data |-> data, options |-> options,
     outcome |-> outcome, value |-> value, trace |-> trace]

\* what a call does that its caller or the log can observe, in order: a log
\* record with the values it carries, the call of a registered function, an
\* exception raised to the caller
Ev(kind, args) == [ev |-> kind, args |-> args]

Bump(kind) == [count EXCEPT ![kind] = @ + 1]

\* Container.__attrs_post_init__: one fresh pair of dicts per listed domain
RECURSIVE PostInitHeap(_, _)
PostInitHeap(h, domains) ==
    IF domains = <<>> THEN h
    ELSE PostInitHeap(h \o <<EmptyDict, EmptyDict>>, Tail(domains))

RECURSIVE PostInitFns(_, _, _)
PostInitFns(m, n, domains) ==
    IF domains = <<>> THEN m
    ELSE PostInitFns(DictSet(m, Head(domains), [READ |-> n + 1, WRITE |-> n + 2]),
                     n + 2, Tail(domains))

\* _io_funcs: json and toml are registered in READ_FNS/WRITE_FNS on import
GlobalHeap ==
    << [k \in {Str(json), Str(toml)} |-> IF k = Str(json) THEN "read_json" ELSE "read_toml"],
       [k \in {Str(json), Str(toml)} |-> IF k = Str(json) THEN "write_json" ELSE "write_toml"] >>

Init ==
    /\ heap = PostInitHeap(GlobalHeap, InitDomains)
    /\ domain_fns = PostInitFns(EmptyDict, Len(GlobalHeap), InitDomains)
    /\ fheap = <<>>
    /\ adapters = <<>>
    /\ last = Call("init", NoneVal, NoneVal, "none", 0, NoneVal, "none", "none",
                   "ok", "none", <<>>)
    /\ regs = <<>>
    /\ writes = <<>>
    /\ count = [adds |-> 0, calls |-> 0]

\* --------------------------------------------------------- Container ----
\* an add_domain that keeps the registries of a domain that already exists
\* (dict.setdefault)
add_domain_setdefault(domain) ==
    /\ count.adds < MaxAdds
    /\ IF domain \in DOMAIN domain_fns
       THEN UNCHANGED <<heap, domain_fns>>
       ELSE /\ heap' = heap \o <<EmptyDict, EmptyDict>>
            /\ domain_fns' = DictSet(domain_fns, domain,
                                     [READ |-> Len(heap) + 1, WRITE |-> Len(heap) + 2])
    /\ last' = Call("add_domain", domain, NoneVal, "none", 0, NoneVal, "none", "none",
                    "ok", "none", <<>>)
    /\ count' = Bump("adds")
    /\ UNCHANGED <<fheap, adapters, regs, writes>>

\* Container.add_domain
add_domain(domain) ==
    /\ count.adds < MaxAdds
    /\ heap' = heap \o <<EmptyDict, EmptyDict>>
    /\ domain_fns' = DictSet(domain_fns, domain,
                             [READ |-> Len(heap) + 1, WRITE |-> Len(heap) + 2])
    /\ last' = Call("add_domain", domain, NoneVal, "none", 0, NoneVal, "none", "none",
                    "ok", "none", <<>>)
    /\ count' = Bump("adds")
    /\ UNCHANGED <<fheap, adapters, regs, writes>>

\* one registration call: which registry kind, the domain and key as the
\* caller passed them (NoneVal for the module-level registries), the function
Reg(fntype, domain, key, func) ==
    [fntype |-> fntype, domain |-> domain, key |-> key, fn |-> func]

\* the decorator returned by Container.register_domain_read_fn /
\* register_domain_write_fn, applied to func
register_domain_fn(op, fntype, domain_arg, key_arg, func) ==
    LET domain == standardise_key(domain_arg)
        key    == standardise_key(key_arg)
    IN  /\ Len(regs) < MaxRegs
        /\ regs' = Append(regs, Reg(fntype, domain_arg, key_arg, func))
        /\ IF domain \in DOMAIN domain_fns
           THEN /\ heap' = [heap EXCEPT ![domain_fns[domain][fntype]] = DictSet(@, key, func)]
                /\ last' = Call(op, domain_arg, key_arg, func, 0, NoneVal, "none", "none",
                                "ok", func, <<Ev("log.info", <<key, func>>)>>)
           ELSE /\ heap' = heap
                /\ last' = Call(op, domain_arg, key_arg, func, 0, NoneVal, "none", "none",
                                "KeyError", "none", <<Ev("log.info", <<key, func>>)>>)
        /\ UNCHANGED <<fheap, domain_fns, adapters, writes, count>>

register_domain_read_fn(domain, key, func) ==
    register_domain_fn("register_domain_read_fn", READ, domain, key, func)

register_domain_write_fn(domain, key, func) ==
    register_domain_fn("register_domain_write_fn", WRITE, domain, key, func)

\* ------------------------------------------------- global registries ----
\* the decorator returned by _registries.register_read_fn /
\* register_write_fn, applied to func
register_fn(op, fntype, registry, key_arg, func) ==
    LET key == standardise_key(key_arg)
    IN  /\ Len(regs) < MaxRegs
        /\ regs' = Append(regs, Reg(fntype, NoneVal, key_arg, func))
        /\ heap' = [heap EXCEPT ![registry] = DictSet(@, key, func)]
        /\ last' = Call(op, NoneVal, key_arg, func, 0, NoneVal, "none", "none",
                        "ok", func, <<Ev("log.info", <<key, func>>)>>)
        /\ UNCHANGED <<fheap, domain_fns, adapters, writes, count>>

register_read_fn(key, func)  == register_fn("register_read_fn", READ, READ_FNS, key, func)

register_write_fn(key, func) == register_fn("register_write_fn", WRITE, WRITE_FNS, key, func)

\* ----------------------------------------------------------- adapters ----
\* the `files` argument of FakeAdapter / get_fake_adapter: omitted (None),
\* a dict the caller has just built, or a dict that already exists
NoFiles        == [kind |-> "none", content |-> EmptyDict, ref |-> 0]
NewFiles(c)    == [kind |-> "new",  content |-> c,         ref |-> 0]
SameFiles(r)   == [kind |-> "ref",  content |-> EmptyDict, ref |-> r]

SeedFiles == {EmptyDict, [p \in {Str(P_A)} |-> "d1"]}

FileArgs == {NoFiles} \cup {NewFiles(c) : c \in SeedFiles}
                      \cup {SameFiles(r) : r \in 1..Len(fheap)}

\* the file heap once the caller's argument exists as an object
WithArg(files) == IF files.kind = "new" THEN Append(fheap, files.content) ELSE fheap

\* the reference the caller passes (0 for None)
ArgRef(files) ==
    CASE files.kind = "new" -> Len(fheap) + 1
      [] files.kind = "ref" -> files.ref
      [] OTHER -> 0

\* _clock: what a call of each guid/datetime function can return; uuid4 and
\* now give a different value on each call, the fake ones a constant, and a
\* function the caller supplies whatever it is written to give
FAKE_GUID     == "abc-123"
FAKE_DATETIME == "2025-01-01T12:00:00+00:00"

ReturnOf(fn) ==
    CASE fn = "fake_guid"        -> {FAKE_GUID}
      [] fn = "fake_datetime"    -> {FAKE_DATETIME}
      [] fn = "default_guid"     -> {"uuid-1", "uuid-2"}
      [] fn = "default_datetime" -> {"now-1", "now-2"}
      [] fn = "my_guid"          -> {"my-guid-1", "my-guid-2"}
      [] fn = "my_datetime"      -> {"my-datetime-1", "my-datetime-2"}

\* the guid_fn / datetime_fn arguments of an adapter: omitted (None) or a
\* function of the caller
GuidFns     == {"none", "my_guid"}
DatetimeFns == {"none", "my_datetime"}

\* (given records the guid_fn and datetime_fn the constructor was called
\* with, passed the reference of the files mapping it was called with, 0 for
\* none)
NoClock == [guid_fn |-> "none", datetime_fn |-> "none"]

\* RealAdapter(read_fns, write_fns): IoAdapter fields after the converters
\* and RealAdapter.__attrs_post_init__
\* (domain, born and files0 record how the adapter came about: the domain it
\* was requested for, how many registrations and add_domain calls had been
\* made, and the content of its file mapping at that time)
Now == [regs |-> Len(regs), adds |-> count.adds]

RealAdapter(domain, read_fns, write_fns) ==
    [cls |-> "RealAdapter", domain |-> domain, born |-> Now, files0 |-> EmptyDict,
     read_fns |-> MappingProxyType(read_fns), write_fns |-> MappingProxyType(write_fns),
     files |-> 0, guid_fn |-> "default_guid", datetime_fn |-> "default_datetime",
     given |-> NoClock, passed |-> 0]

\* FakeAdapter.__attrs_post_init__: the registries it was given are replaced
\* by two new dicts with the same keys, bound to the adapter's own handlers;
\* h is the heap before, the new dicts get the next two references
FakePostInitHeap_write_keys(h, read_fns, write_fns) ==
    h \o << fromkeys(DOMAIN h[write_fns], "_read_fn"),
            fromkeys(DOMAIN h[write_fns], "_write_fn") >>

FakePostInitHeap(h, read_fns, write_fns) ==
    h \o << fromkeys(DOMAIN h[read_fns], "_read_fn"),
            fromkeys(DOMAIN h[write_fns], "_write_fn") >>

\* a FakeAdapter that keeps the views of the registries it was given
FakeAdapter_not_rebound(domain, read_fns, write_fns, h, files_ref, files0) ==
    [cls |-> "FakeAdapter", domain |-> domain, born |-> Now, files0 |-> files0,
     read_fns |-> MappingProxyType(read_fns), write_fns |-> MappingProxyType(write_fns),
     files |-> files_ref, guid_fn |-> "fake_guid", datetime_fn |-> "fake_datetime",
     given |-> NoClock, passed |-> 0]

\* FakeAdapter(read_fns, write_fns, files): the fields after
\* __attrs_post_init__ has rebound read_fns/write_fns to the new dicts
FakeAdapter(domain, read_fns, write_fns, h, files_ref, files0) ==
    [cls |-> "FakeAdapter", domain |-> domain, born |-> Now, files0 |-> files0,
     read_fns |-> MappingProxyType(Len(h) + 1), write_fns |-> MappingProxyType(Len(h) + 2),
     files |-> files_ref, guid_fn |-> "fake_guid", datetime_fn |-> "fake_datetime",
     given |-> NoClock, passed |-> 0]

\* FakeAdapter.__attrs_post_init__, lines 165-166: `self.guid_fn or fake_guid`
\* with the defaults swapped for the real clock
FakeClock_real_defaults(a, guid_fn, datetime_fn) ==
    [a EXCEPT !.guid_fn     = IF guid_fn = "none" THEN "default_guid" ELSE guid_fn,
              !.datetime_fn = IF datetime_fn = "none" THEN "default_datetime" ELSE datetime_fn,
              !.given       = [guid_fn |-> guid_fn, datetime_fn |-> datetime_fn]]

\* FakeAdapter.__attrs_post_init__, lines 165-166: `self.guid_fn or fake_guid`
\* and `self.datetime_fn or fake_datetime`
FakeClock(a, guid_fn, datetime_fn) ==
    [a EXCEPT !.guid_fn     = IF guid_fn = "none" THEN "fake_guid" ELSE guid_fn,
              !.datetime_fn = IF datetime_fn = "none" THEN "fake_datetime" ELSE datetime_fn,
              !.given       = [guid_fn |-> guid_fn, datetime_fn |-> datetime_fn]]

\* RealAdapter(): the defaults are the module-level registries
new_real_adapter ==
    /\ Len(adapters) < MaxAdapters
    /\ adapters' = Append(adapters, RealAdapter(NoneVal, READ_FNS, WRITE_FNS))
    /\ last' = Call("RealAdapter", NoneVal, NoneVal, "none", Len(adapters) + 1, NoneVal,
                    "none", "none", "ok", "none", <<>>)
    /\ UNCHANGED <<heap, fheap, domain_fns, regs, writes, count>>

\* FakeAdapter(files=...): files defaults to a new dict, a given dict is kept
new_fake_adapter(files) ==
    LET fh  == WithArg(files)
        own == files.kind = "none"
    IN  /\ Len(adapters) < MaxAdapters
        /\ fheap' = IF own THEN Append(fh, EmptyDict) ELSE fh
        /\ heap' = FakePostInitHeap(heap, READ_FNS, WRITE_FNS)
        /\ adapters' = Append(adapters,
               [FakeAdapter(NoneVal, READ_FNS, WRITE_FNS, heap,
                            IF own THEN Len(fh) + 1 ELSE ArgRef(files),
                            IF own THEN EmptyDict ELSE fh[ArgRef(files)])
                   EXCEPT !.passed = ArgRef(files)])
        /\ last' = Call("FakeAdapter", NoneVal, NoneVal, "none", Len(adapters) + 1, NoneVal,
                        "none", "none", "ok", "none", <<>>)
        /\ UNCHANGED <<domain_fns, regs, writes, count>>

\* FakeAdapter(guid_fn=..., datetime_fn=...): over the module-level
\* registries, with a new file mapping
new_fake_adapter_clock(guid_fn, datetime_fn) ==
    /\ Len(adapters) < MaxAdapters
    /\ fheap' = Append(fheap, EmptyDict)
    /\ heap' = FakePostInitHeap(heap, READ_FNS, WRITE_FNS)
    /\ adapters' = Append(adapters,
           FakeClock(FakeAdapter(NoneVal, READ_FNS, WRITE_FNS, heap,
                                 Len(fheap) + 1, EmptyDict),
                     guid_fn, datetime_fn))
    /\ last' = Call("FakeAdapter", NoneVal, NoneVal, "none", Len(adapters) + 1, NoneVal,
                    "none", "none", "ok", "none", <<>>)
    /\ UNCHANGED <<domain_fns, regs, writes, count>>

\* IoAdapter.get_guid / FakeAdapter.get_guid: calls the adapter's guid_fn
get_guid(a) ==
    /\ \E v \in ReturnOf(adapters[a].guid_fn) :
          last' = Call("get_guid", adapters[a].domain, NoneVal, adapters[a].guid_fn, a,
                       NoneVal, "none", "none", "ok", v, <<>>)
    /\ UNCHANGED <<heap, fheap, domain_fns, adapters, regs, writes, count>>

\* IoAdapter.get_datetime / FakeAdapter.get_datetime: calls the adapter's
\* datetime_fn
get_datetime(a) ==
    /\ \E v \in ReturnOf(adapters[a].datetime_fn) :
          last' = Call("get_datetime", adapters[a].domain, NoneVal,
                       adapters[a].datetime_fn, a, NoneVal, "none", "none", "ok", v, <<>>)
    /\ UNCHANGED <<heap, fheap, domain_fns, adapters, regs, writes, count>>

\* Container.get_real_adapter
get_real_adapter(domain) ==
    /\ IF domain \in DOMAIN domain_fns
       THEN /\ Len(adapters) < MaxAdapters
            /\ adapters' = Append(adapters,
                   RealAdapter(domain, domain_fns[domain][READ], domain_fns[domain][WRITE]))
            /\ last' = Call("get_real_adapter", domain, NoneVal, "none", Len(adapters) + 1,
                            NoneVal, "none", "none", "ok", "none", <<>>)
       ELSE /\ adapters' = adapters
            /\ last' = Call("get_real_adapter", domain, NoneVal, "none", 0,
                            NoneVal, "none", "none", "KeyError", "none", <<>>)
    /\ UNCHANGED <<heap, fheap, domain_fns, regs, writes, count>>

\* Container.get_fake_adapter: `files or {}` keeps a non-empty dict and
\* replaces None or an empty dict by a new one
get_fake_adapter(domain, files) ==
    LET fh  == WithArg(files)
        own == files.kind = "none" \/ fh[ArgRef(files)] = EmptyDict
    IN  IF domain \in DOMAIN domain_fns
        THEN /\ Len(adapters) < MaxAdapters
             /\ fheap' = IF own THEN Append(fh, EmptyDict) ELSE fh
             /\ heap' = FakePostInitHeap(heap, domain_fns[domain][READ],
                                         domain_fns[domain][WRITE])
             /\ adapters' = Append(adapters,
                    [FakeAdapter(domain, domain_fns[domain][READ], domain_fns[domain][WRITE],
                                 heap, IF own THEN Len(fh) + 1 ELSE ArgRef(files),
                                 IF own THEN EmptyDict ELSE fh[ArgRef(files)])
                        EXCEPT !.passed = ArgRef(files)])
             /\ last' = Call("get_fake_adapter", domain, NoneVal, "none", Len(adapters) + 1,
                             NoneVal, "none", "none", "ok", "none", <<>>)
             /\ UNCHANGED <<domain_fns, regs, writes, count>>
        ELSE /\ fheap' = fh
             /\ last' = Call("get_fake_adapter", domain, NoneVal, "none", 0,
                             NoneVal, "none", "none", "KeyError", "none", <<>>)
             /\ UNCHANGED <<heap, domain_fns, adapters, regs, writes, count>>

\* ------------------------------------------------------- read / write ----
\* the lookup of IoAdapter.read / IoAdapter.write: the function registered
\* for the normalised file type, or none
Unsupported == "NotImplementedError"

\* a lookup that falls back to some registered function
dispatch_fallback(fns, file_type) ==
    IF file_type \in DOMAIN fns THEN fns[file_type]
    ELSE IF DOMAIN fns = {} THEN Unsupported
    ELSE fns[CHOOSE k \in DOMAIN fns : TRUE]

dispatch(fns, file_type) ==
    IF file_type \notin DOMAIN fns THEN Unsupported ELSE fns[file_type]

\* a handler that reads with dict.get: a missing path gives a default
_read_fn_default(files, path, options) ==
    IF options # "none" THEN [outcome |-> "TypeError", value |-> "none"]
    ELSE IF path \in DOMAIN files THEN [outcome |-> "ok", value |-> files[path]]
    ELSE [outcome |-> "ok", value |-> "none"]

\* FakeAdapter._read_fn(path, **kwargs) on the file mapping `files`: the
\* handler takes no keyword options; the path is looked up as given
_read_fn(files, path, options) ==
    IF options # "none" THEN [outcome |-> "TypeError", value |-> "none"]
    ELSE IF path \in DOMAIN files THEN [outcome |-> "ok", value |-> files[path]]
    ELSE [outcome |-> "FileNotFoundError", value |-> "none"]

\* FakeAdapter._write_fn(data, path, **kwargs) on the file mapping `files`:
\* the handler takes no keyword options; the data is stored under str(path)
_write_fn(files, data, path, options) ==
    IF options # "none" THEN [outcome |-> "TypeError", files |-> files]
    ELSE [outcome |-> "ok", files |-> DictSet(files, str(path), data)]

\* IoAdapter.read / write, lines 74-80 and 135-141, for a file type without a
\* function: logger.info, logger.error, raise NotImplementedError
TraceUnsupported(path, file_type_arg, file_type, options) ==
    << Ev("log.info", <<path, file_type_arg, options>>),
       Ev("log.error", <<file_type>>),
       Ev("raise", <<Unsupported>>) >>

\* a read / write that logs after it has called the function
TraceCall_log_after(path, file_type_arg, options, fn) ==
    << Ev("call", <<fn>>), Ev("log.info", <<path, file_type_arg, options>>) >>

\* IoAdapter.read / write, lines 74-81 and 135-142, for a file type with a
\* function: logger.info, then the call of the function
TraceCall(path, file_type_arg, options, fn) ==
    << Ev("log.info", <<path, file_type_arg, options>>), Ev("call", <<fn>>) >>

\* IoAdapter.read
read(a, path, file_type_arg, options) ==
    LET file_type == standardise_key(file_type_arg)
        fn        == dispatch(heap[adapters[a].read_fns], file_type)
        r         == _read_fn(fheap[adapters[a].files], path, options)
    IN  /\ count.calls < MaxCalls
        /\ count' = Bump("calls")
        /\ last' =
             IF fn = Unsupported
             THEN Call("read", adapters[a].domain, file_type_arg, "none", a, path, "none",
                       options, "NotImplementedError", "none",
                       TraceUnsupported(path, file_type_arg, file_type, options))
             ELSE IF fn = "_read_fn"
             THEN Call("read", adapters[a].domain, file_type_arg, fn, a, path, "none",
                       options, r.outcome, r.value,
                       TraceCall(path, file_type_arg, options, fn))
             ELSE Call("read", adapters[a].domain, file_type_arg, fn, a, path, "none",
                       options, "dispatched", "none",
                       TraceCall(path, file_type_arg, options, fn))
        /\ UNCHANGED <<heap, fheap, domain_fns, adapters, regs, writes>>

\* IoAdapter.write
write(a, data, path, file_type_arg, options) ==
    LET file_type == standardise_key(file_type_arg)
        fn        == dispatch(heap[adapters[a].write_fns], file_type)
        f         == adapters[a].files
        w         == _write_fn(fheap[f], data, path, options)
    IN  /\ count.calls < MaxCalls
        /\ count' = Bump("calls")
        /\ IF fn = Unsupported
           THEN /\ last' = Call("write", adapters[a].domain, file_type_arg, "none", a, path,
                                data, options, "NotImplementedError", "none",
                                TraceUnsupported(path, file_type_arg, file_type, options))
                /\ UNCHANGED <<fheap, writes>>
           ELSE IF fn = "_write_fn"
           THEN /\ last' = Call("write", adapters[a].domain, file_type_arg, fn, a, path,
                                data, options, w.outcome, "none",
                                TraceCall(path, file_type_arg, options, fn))
                /\ fheap' = [fheap EXCEPT ![f] = w.files]
                /\ writes' = IF w.outcome = "ok"
                             THEN Append(writes, [adapter |-> a, files |-> f,
                                                  path |-> path, data |-> data])
                             ELSE writes
           ELSE /\ last' = Call("write", adapters[a].domain, file_type_arg, fn, a, path,
                                data, options, "dispatched", "none",
                       TraceCall(path, file_type_arg, options, fn))
                /\ UNCHANGED <<fheap, writes>>
        /\ UNCHANGED <<heap, domain_fns, adapters, regs>>

\* ------------------------------------------------------ specification ----
\* an application that declares domains, registers functions and requests
\* adapters
NextRegistry ==
    \/ \E d \in Labels : add_domain(d)
    \/ \E d \in Labels, k \in RegKeys, f \in Fns : register_domain_read_fn(d, k, f)
    \/ \E d \in Labels, k \in RegKeys, f \in Fns : register_domain_write_fn(d, k, f)
    \/ \E k \in RegKeys, f \in Fns : register_read_fn(k, f)
    \/ \E k \in RegKeys, f \in Fns : register_write_fn(k, f)
    \/ new_real_adapter
    \/ new_fake_adapter(NoFiles)
    \/ \E d \in Labels : get_real_adapter(d)
    \/ \E d \in Labels : get_fake_adapter(d, NoFiles)

SpecRegistry == Init /\ [][NextRegistry]_vars

\* an application with one domain that registers functions, resets the
\* domain and requests adapters for it or over the module-level registries
NextSnapshot ==
    \/ add_domain(DOM_ORDERS)
    \/ \E k \in RegKeys : register_domain_read_fn(DOM_ORDERS, k, "f1")
    \/ \E k \in RegKeys : register_domain_write_fn(DOM_ORDERS, k, "f1")
    \/ \E k \in RegKeys : register_read_fn(k, "f1")
    \/ \E k \in RegKeys : register_write_fn(k, "f1")
    \/ new_real_adapter
    \/ new_fake_adapter(NoFiles)
    \/ get_real_adapter(DOM_ORDERS)
    \/ get_fake_adapter(DOM_ORDERS, NoFiles)

SpecSnapshot == Init /\ [][NextSnapshot]_vars

\* an application with two domains that registers functions to them, adds
\* them again and requests adapters for them
NextReset ==
    \/ \E d \in {DOM_ORDERS, DOM_PAYMENT} : add_domain(d)
    \/ \E d \in {DOM_ORDERS, DOM_PAYMENT}, k \in RegKeys :
           register_domain_read_fn(d, k, "f1")
    \/ \E d \in {DOM_ORDERS, DOM_PAYMENT}, k \in RegKeys :
           register_domain_write_fn(d, k, "f1")
    \/ \E d \in {DOM_ORDERS, DOM_PAYMENT} : get_real_adapter(d)
    \/ \E d \in {DOM_ORDERS, DOM_PAYMENT} : get_fake_adapter(d, NoFiles)

SpecReset == Init /\ [][NextReset]_vars

\* an application that constructs adapters with and without its own guid and
\* datetime functions, reads and writes through them and asks them for
\* guids and datetimes
NextClock ==
    \/ new_real_adapter
    \/ \E g \in GuidFns, d \in DatetimeFns : new_fake_adapter_clock(g, d)
    \/ get_fake_adapter(DOM_ORDERS, NoFiles)
    \/ \E a \in 1..Len(adapters) : read(a, Str(P_A), KEY_JSON, "none")
    \/ \E a \in 1..Len(adapters), x \in Data : write(a, x, Str(P_A), KEY_JSON, "none")
    \/ \E a \in 1..Len(adapters) : get_guid(a)
    \/ \E a \in 1..Len(adapters) : get_datetime(a)

SpecClock == Init /\ [][NextClock]_vars

\* a test that registers json for one domain, builds Fake adapters for it
\* and over the module-level registries from files mappings it holds, and
\* reads and writes through them
NextFiles ==
    \/ register_domain_read_fn(DOM_ORDERS, KEY_JSON, "f1")
    \/ register_domain_write_fn(DOM_ORDERS, KEY_JSON, "f1")
    \/ \E files \in FileArgs : new_fake_adapter(files)
    \/ \E files \in FileArgs : get_fake_adapter(DOM_ORDERS, files)
    \/ \E a \in 1..Len(adapters), p \in {Str(P_A), Str(P_B)} : read(a, p, KEY_JSON, "none")
    \/ \E a \in 1..Len(adapters), p \in {Str(P_A), Str(P_B)} :
           write(a, "d2", p, KEY_JSON, "none")

SpecFiles == Init /\ [][NextFiles]_vars

\* an application that reads and writes json with and without keyword
\* options, through Real and Fake adapters over the module-level registries
NextOptions ==
    \/ new_real_adapter
    \/ \E files \in {NoFiles, NewFiles([p \in {Str(P_A)} |-> "d1"])} : new_fake_adapter(files)
    \/ \E a \in 1..Len(adapters), p \in {Str(P_A), Str(P_B)}, o \in Options :
           read(a, p, KEY_JSON, o)
    \/ \E a \in 1..Len(adapters), x \in Data, p \in {Str(P_A), Str(P_B)}, o \in Options :
           write(a, x, p, KEY_JSON, o)

SpecOptions == Init /\ [][NextOptions]_vars

\* an application that registers functions in both kinds of registry and
\* dispatches through Real adapters, always on the same path
NextDispatch ==
    \/ \E r \in KeyedFns : register_domain_read_fn(DOM_ORDERS, r[1], r[2])
    \/ \E r \in KeyedFns : register_domain_write_fn(DOM_ORDERS, r[1], r[2])
    \/ \E r \in KeyedFns : register_read_fn(r[1], r[2])
    \/ \E r \in KeyedFns : register_write_fn(r[1], r[2])
    \/ new_real_adapter
    \/ get_real_adapter(DOM_ORDERS)
    \/ \E a \in 1..Len(adapters), t \in {KEY_JSON, KEY_JSON_RAW, KEY_ENUM} :
           read(a, Str(P_A), t, "none")
    \/ \E a \in 1..Len(adapters), t \in {KEY_JSON, KEY_JSON_RAW, KEY_ENUM} :
           write(a, "d1", Str(P_A), t, "none")

SpecDispatch == Init /\ [][NextDispatch]_vars

\* an application that constructs adapters over the module-level registries,
\* without files, with initial files or with a mapping that already exists,
\* and reads and writes through them
NextIO ==
    \/ new_real_adapter
    \/ \E files \in FileArgs \ {NewFiles(EmptyDict)} : new_fake_adapter(files)
    \/ \E a \in 1..Len(adapters), p \in Paths, t \in {KEY_JSON, KEY_CSV} :
           read(a, p, t, "none")
    \/ \E a \in 1..Len(adapters), x \in Data, p \in Paths, t \in {KEY_JSON, KEY_CSV} :
           write(a, x, p, t, "none")

SpecIO == Init /\ [][NextIO]_vars

Next == NextRegistry \/ NextSnapshot \/ NextReset \/ NextClock \/ NextFiles \/ NextOptions \/ NextDispatch \/ NextIO

Spec == Init /\ [][Next]_vars

\* ------------------------------------------------------------ claims ----
ReadKeys(a)  == DOMAIN heap[adapters[a].read_fns]
WriteKeys(a) == DOMAIN heap[adapters[a].write_fns]
KeysOf(a, fntype) == IF fntype = READ THEN ReadKeys(a) ELSE WriteKeys(a)

Issued == 1..Len(adapters)
FromContainer(a) == adapters[a].domain # NoneVal

\* the registration calls, made so far, that name `domain` and normalise to `key`
RegisteredTo(domain, fntype, key) ==
    {i \in 1..Len(regs) : /\ regs[i].domain = domain
                          /\ regs[i].fntype = fntype
                          /\ standardise_key(regs[i].key) = key}

\* C1: an adapter for domain B has a format key in read_fns (write_fns) only
\* if a read (write) function was registered under that key to domain B
\* itself; a registration made to another domain never shows in it
C1_DomainIsolation ==
    \A a \in Issued, fntype \in {READ, WRITE} :
        FromContainer(a) =>
            \A k \in KeysOf(a, fntype) :
                RegisteredTo(adapters[a].domain, fntype, k) # {}

\* C2: a Real adapter from get_real_adapter is a snapshot: no later step
\* changes the registries an issued adapter reads from
C2_RealSnapshot ==
    [][\A a \in Issued :
          (adapters[a].cls = "RealAdapter" /\ FromContainer(a)) =>
              /\ heap'[adapters[a].read_fns] = heap[adapters[a].read_fns]
              /\ heap'[adapters[a].write_fns] = heap[adapters[a].write_fns]]_vars

ContainerOps == {"get_real_adapter", "get_fake_adapter",
                 "register_domain_read_fn", "register_domain_write_fn"}

\* C6: requesting an adapter for, or registering to, a domain that was never
\* added fails with KeyError (domains are never removed, so a domain that is
\* not in domain_fns was never added)
C6_UndeclaredDomain ==
    (last.op \in ContainerOps /\ last.domain \notin DOMAIN domain_fns)
        => last.outcome = "KeyError"

\* what get_real_adapter(domain).read_fns / write_fns is for a declared domain
RegistryOf(domain, fntype) ==
    heap[RealAdapter(domain, domain_fns[domain][READ], domain_fns[domain][WRITE])
            [IF fntype = READ THEN "read_fns" ELSE "write_fns"]]

LastFnType == IF last.op = "register_domain_read_fn" THEN READ ELSE WRITE

\* C7: registering fn under key to a declared domain d, with the label as it
\* was declared, succeeds, and get_real_adapter(d) then maps the normalised
\* key to fn
C7_DeclaredDomainUsable ==
    (/\ last.op \in {"register_domain_read_fn", "register_domain_write_fn"}
     /\ last.domain \in DOMAIN domain_fns)
        => /\ last.outcome = "ok"
           /\ standardise_key(last.key) \in DOMAIN RegistryOf(last.domain, LastFnType)
           /\ RegistryOf(last.domain, LastFnType)[standardise_key(last.key)] = last.fn

\* C9: a Real and a Fake adapter requested for the same domain at the same
\* point expose the same read keys and the same write keys
C9_RealFakeSameKeys ==
    \A r \in Issued, f \in Issued :
        (/\ adapters[r].cls = "RealAdapter" /\ adapters[f].cls = "FakeAdapter"
         /\ adapters[r].domain = adapters[f].domain
         /\ adapters[r].born = Now /\ adapters[f].born = Now)
            => (ReadKeys(r) = ReadKeys(f) /\ WriteKeys(r) = WriteKeys(f))

C9_Witness ==
    \E r \in Issued, f \in Issued :
        /\ adapters[r].cls = "RealAdapter" /\ adapters[f].cls = "FakeAdapter"
        /\ adapters[r].domain = adapters[f].domain /\ FromContainer(r)
        /\ adapters[r].born = Now /\ adapters[f].born = Now
        /\ ReadKeys(f) # WriteKeys(f)

\* C10: the key sets of an issued Fake adapter never change, whatever is
\* registered afterwards
RegisteredBefore(a, fntype, key) ==
    {i \in 1..adapters[a].born.regs :
        /\ IF FromContainer(a) THEN standardise_key(regs[i].domain) = adapters[a].domain
                                ELSE regs[i].domain = NoneVal
        /\ regs[i].fntype = fntype
        /\ standardise_key(regs[i].key) = key}

BuiltIn(a, fntype) ==
    IF FromContainer(a) THEN {}
    ELSE DOMAIN GlobalHeap[IF fntype = READ THEN READ_FNS ELSE WRITE_FNS]

C10_FakeKeysFixed ==
    /\ [](\A a \in Issued, fntype \in {READ, WRITE} :
            adapters[a].cls = "FakeAdapter" =>
                \A k \in KeysOf(a, fntype) :
                    k \in BuiltIn(a, fntype) \/ RegisteredBefore(a, fntype, k) # {})
    /\ [][\A a \in Issued :
          adapters[a].cls = "FakeAdapter" =>
              /\ adapters'[a] = adapters[a]
              /\ DOMAIN heap'[adapters[a].read_fns] = DOMAIN heap[adapters[a].read_fns]
              /\ DOMAIN heap'[adapters[a].write_fns] = DOMAIN heap[adapters[a].write_fns]]_vars

\* a registration made after a Fake adapter was issued is missing from it and
\* present in a Fake adapter derived for the same domain afterwards
C10_Witness ==
    \E a \in Issued, b \in Issued :
        /\ adapters[a].cls = "FakeAdapter" /\ adapters[b].cls = "FakeAdapter"
        /\ adapters[a].domain = adapters[b].domain
        /\ adapters[a].born.regs < adapters[b].born.regs
        /\ \E k \in ReadKeys(b) : k \notin ReadKeys(a)

IsFake(a) == adapters[a].cls = "FakeAdapter"
IsCall    == last.op \in {"read", "write"}

\* the writes stored so far through adapter a under the path as given
WritesOf(a, path) ==
    {i \in 1..Len(writes) : writes[i].adapter = a /\ writes[i].path = path}

Latest(S) == CHOOSE i \in S : \A j \in S : j <= i

\* C3: on a Fake adapter, reading a path, with the path value that was
\* written and a registered read format, returns the data most recently
\* written to it
C3_FakeRoundTrip ==
    (/\ last.op = "read" /\ IsFake(last.adapter) /\ last.options = "none"
     /\ standardise_key(last.key) \in ReadKeys(last.adapter)
     /\ WritesOf(last.adapter, last.path) # {})
        => /\ last.outcome = "ok"
           /\ last.value = writes[Latest(WritesOf(last.adapter, last.path))].data

Events(trace) == {trace[i].ev : i \in 1..Len(trace)}

\* C4: a read (write) whose normalised format is not a key of the adapter's
\* read_fns (write_fns) fails with NotImplementedError, calls no function and
\* changes neither the registries nor the file mappings
C4_UnsupportedFormat ==
    [][(count'.calls # count.calls) =>
          LET a    == last'.adapter
              keys == IF last'.op = "read" THEN ReadKeys(a) ELSE WriteKeys(a)
          IN  standardise_key(last'.key) \notin keys =>
                  /\ last'.outcome = "NotImplementedError"
                  /\ last'.fn = "none"
                  /\ "call" \notin Events(last'.trace)
                  /\ heap' = heap /\ fheap' = fheap /\ adapters' = adapters]_vars

\* an unsupported write through a Fake adapter that supports other formats
C4_Witness ==
    /\ last.op = "write" /\ last.outcome = "NotImplementedError"
    /\ IsFake(last.adapter) /\ WriteKeys(last.adapter) # {}

\* the paths under which something was stored in the file mapping of a
SeededPaths(a)  == DOMAIN adapters[a].files0
WrittenPaths(a) ==
    {str(writes[i].path) : i \in {j \in 1..Len(writes) : writes[j].files = adapters[a].files}}

\* C5: on a Fake adapter a read, with a registered format, of a path that
\* was neither seeded nor written fails with FileNotFoundError and returns
\* nothing; a seeded path is readable without a write; a read never changes
\* a file mapping
C5_FakePathNotFound ==
    /\ []((/\ last.op = "read" /\ IsFake(last.adapter) /\ last.options = "none"
           /\ standardise_key(last.key) \in ReadKeys(last.adapter))
            => /\ last.path \notin SeededPaths(last.adapter) \cup WrittenPaths(last.adapter)
                   => (last.outcome = "FileNotFoundError" /\ last.value = "none")
               /\ (last.path \in SeededPaths(last.adapter) /\ writes = <<>>)
                   => (/\ last.outcome = "ok"
                       /\ last.value = adapters[last.adapter].files0[last.path]))
    /\ [][(count'.calls # count.calls /\ last'.op = "read") => fheap' = fheap]_vars

\* a read of a missing path through a Fake adapter that was given files
C5_Witness ==
    /\ last.op = "read" /\ last.outcome = "FileNotFoundError"
    /\ IsFake(last.adapter) /\ SeededPaths(last.adapter) # {}

\* two keys name the same format: text keys when they are equal after
\* strip().lower(), any other keys when they are equal
KeyMatch(k1, k2) ==
    IF k1.kind = "str" /\ k2.kind = "str"
    THEN lower(strip(k1.v)) = lower(strip(k2.v))
    ELSE k1 = k2

\* the registrations, made before adapter a was requested, into the registry
\* a was made from, under a key that names the format k2
Matching(a, fntype, k2) ==
    {i \in 1..adapters[a].born.regs :
        /\ IF FromContainer(a) THEN standardise_key(regs[i].domain) = adapters[a].domain
                                ELSE regs[i].domain = NoneVal
        /\ regs[i].fntype = fntype
        /\ KeyMatch(regs[i].key, k2)}

\* the functions _io_funcs registers under "json" and "toml"
BuiltInFn(a, fntype, k2) ==
    LET g == GlobalHeap[IF fntype = READ THEN READ_FNS ELSE WRITE_FNS]
    IN  IF ~FromContainer(a) /\ \E k \in DOMAIN g : KeyMatch(k, k2)
        THEN g[CHOOSE k \in DOMAIN g : KeyMatch(k, k2)]
        ELSE Unsupported

Expected(a, fntype, k2) ==
    IF Matching(a, fntype, k2) # {} THEN regs[Latest(Matching(a, fntype, k2))].fn
    ELSE BuiltInFn(a, fntype, k2)

AllKeys == RegKeys \cup Formats \cup Labels

\* C8: read/write with format k2 dispatches to the function registered under
\* k1 exactly when k1 and k2 are equal after strip().lower() (text keys) or
\* equal (other keys); normalisation is idempotent and leaves other keys alone
C8_KeysNormalised ==
    /\ \A k \in AllKeys :
          /\ standardise_key(standardise_key(k)) = standardise_key(k)
          /\ k.kind # "str" => standardise_key(k) = k
    /\ (IsCall /\ adapters[last.adapter].born.regs = Len(regs)) =>
          LET a  == last.adapter
              ft == IF last.op = "read" THEN READ ELSE WRITE
              e  == Expected(a, ft, last.key)
          IN  IF e = Unsupported THEN last.outcome = "NotImplementedError"
              ELSE IF IsFake(a)
              THEN last.fn = (IF last.op = "read" THEN "_read_fn" ELSE "_write_fn")
              ELSE last.outcome = "dispatched" /\ last.fn = e

\* a Real adapter dispatches to a function registered under a key spelled
\* differently from the format asked for
C8_Witness ==
    /\ IsCall /\ ~IsFake(last.adapter) /\ last.fn \in Fns
    /\ \E i \in 1..Len(regs) : regs[i].fn = last.fn /\ regs[i].key # last.key
                               /\ regs[i].key.kind = "str"

\* the domain d is declared in the container (h, fns) and both its
\* registries are empty
Fresh(h, fns, d) ==
    /\ d \in DOMAIN fns
    /\ h[fns[d][READ]] = EmptyDict
    /\ h[fns[d][WRITE]] = EmptyDict

\* C11: add_domain(d) leaves d with two empty registries and every other
\* domain's registries as they were; the registries of d stay empty until a
\* function is registered to d, and an adapter requested for d while they are
\* empty supports no format
C11_AddDomainResets ==
    [][/\ count'.adds # count.adds =>
            /\ Fresh(heap', domain_fns', last'.domain)
            /\ \A e \in DOMAIN domain_fns \ {last'.domain}, t \in {READ, WRITE} :
                  /\ e \in DOMAIN domain_fns'
                  /\ heap'[domain_fns'[e][t]] = heap[domain_fns[e][t]]
       /\ \A d \in DOMAIN domain_fns :
             (Fresh(heap, domain_fns, d) /\ ~Fresh(heap', domain_fns', d)) =>
                 /\ regs' # regs
                 /\ standardise_key(last'.domain) = d
       /\ Len(adapters') > Len(adapters) =>
             LET new == adapters'[Len(adapters')]
             IN  (new.domain # NoneVal /\ Fresh(heap, domain_fns, new.domain)) =>
                     /\ DOMAIN heap'[new.read_fns] = {}
                     /\ DOMAIN heap'[new.write_fns] = {}]_vars

\* an adapter requested for a domain after a function was registered to it
\* and the domain was then added again: the adapter supports no format
C11_Witness ==
    \E a \in Issued :
        /\ FromContainer(a) /\ adapters[a].born.adds > 0
        /\ ReadKeys(a) = {} /\ WriteKeys(a) = {}
        /\ \E i \in 1..adapters[a].born.regs :
              standardise_key(regs[i].domain) = adapters[a].domain

\* C12: get_guid() and get_datetime() of a Fake adapter constructed without
\* a guid_fn / datetime_fn return the fixed constants, for every instance and
\* after any reads and writes; a Fake adapter constructed with one returns
\* that function's value
C12_FakeClockFixed ==
    (last.op \in {"get_guid", "get_datetime"} /\ IsFake(last.adapter)) =>
        LET field == IF last.op = "get_guid" THEN "guid_fn" ELSE "datetime_fn"
            given == adapters[last.adapter].given[field]
        IN  IF given = "none"
            THEN last.value = (IF last.op = "get_guid" THEN FAKE_GUID ELSE FAKE_DATETIME)
            ELSE last.fn = given /\ last.value \in ReturnOf(given)

\* a Fake adapter constructed without a guid_fn is asked for a guid after it
\* has stored a write, next to another Fake adapter
C12_Witness ==
    /\ last.op = "get_guid" /\ IsFake(last.adapter)
    /\ adapters[last.adapter].given.guid_fn = "none"
    /\ \E i \in 1..Len(writes) : writes[i].adapter = last.adapter
    /\ \E b \in Issued : b # last.adapter /\ IsFake(b)

\* the positions of the events of one kind in a trace
At(trace, kind) == {i \in 1..Len(trace) : trace[i].ev = kind}

\* C13: every read/write call first emits a log record with the path, the
\* format and the options it was given, before any function is called and
\* before it fails; a call that finds no function for the format emits an
\* error record after that first record and before it raises
C13_LogOrdering ==
    IsCall =>
        LET t == last.trace
        IN  /\ Len(t) > 0
            /\ t[1] = Ev("log.info", <<last.path, last.key, last.options>>)
            /\ At(t, "call") \cup At(t, "raise") # {}
            /\ \A i \in At(t, "call") \cup At(t, "raise") : i > 1
            /\ last.outcome = "NotImplementedError" =>
                   /\ At(t, "call") = {}
                   /\ At(t, "log.error") # {} /\ At(t, "raise") # {}
                   /\ \A e \in At(t, "log.error"), r \in At(t, "raise") : 1 < e /\ e < r
            /\ last.outcome # "NotImplementedError" =>
                   At(t, "call") # {} /\ At(t, "raise") = {}

\* after an earlier call, a call with a path object on a Fake adapter finds
\* no function for its format
C13_Witness ==
    /\ IsCall /\ IsFake(last.adapter)
    /\ last.path.kind = "path"
    /\ last.outcome = "NotImplementedError"
    /\ count.calls = MaxCalls

\* C14: a write through a Fake adapter changes only that adapter's entry for
\* str(path): the file mapping of every other Fake adapter, and every files
\* mapping a caller passed to a constructor, is as it was before
C14_FakeFilesIndependent ==
    [][writes' # writes =>
          LET w == writes'[Len(writes')]
              a == w.adapter
              f == adapters[a].files
          IN  /\ \A p \in (DOMAIN fheap[f] \cup DOMAIN fheap'[f]) \ {str(w.path)} :
                    p \in DOMAIN fheap[f] /\ p \in DOMAIN fheap'[f]
                                          /\ fheap'[f][p] = fheap[f][p]
              /\ \A b \in Issued \ {a} :
                    IsFake(b) => fheap'[adapters[b].files] = fheap[adapters[b].files]
              /\ \A b \in Issued :
                    (IsFake(b) /\ adapters[b].passed # 0) =>
                        fheap'[adapters[b].passed] = fheap[adapters[b].passed]]_vars

\* C15: on a Fake adapter a read or write of a supported format succeeds
\* whatever keyword options it is given, with the effect it has without
\* options: the write stores the data under str(path), the read returns what
\* is stored under the path
C15_FakeAcceptsOptions ==
    (/\ IsCall /\ IsFake(last.adapter)
     /\ standardise_key(last.key)
            \in KeysOf(last.adapter, IF last.op = "read" THEN READ ELSE WRITE)) =>
        LET files == fheap[adapters[last.adapter].files]
            plain == _read_fn(files, last.path, "none")
        IN  IF last.op = "write"
            THEN /\ last.outcome = "ok"
                 /\ str(last.path) \in DOMAIN files
                 /\ files[str(last.path)] = last.data
            ELSE /\ last.outcome = plain.outcome
                 /\ last.value = plain.value
====
